---- MODULE Spec2Model ----
(***************************************************************************)
(* Spell Bee: the three Streamlit programs of the repository               *)
(*   "app"        src/app.py                                               *)
(*   "app2"       src/app2.py                                              *)
(*   "streamlit"  src/spell_bee_streamlit.py                               *)
(* modelled as one state machine whose variable `app` says which program   *)
(* runs.  Words are strings, Python lists are sequences of one-character   *)
(* strings, Python sets are sets.                                          *)
(***************************************************************************)
EXTENDS Naturals, Integers, Sequences, FiniteSets, TLC

VARIABLES
  app,            \* which program runs
  pc,             \* "start" | "play" | "raised" | "looping" | "call" | "returned"
  source,         \* the external word source (words_alpha.txt / Datamuse vocabulary)
  online,         \* whether the HTTP requests of this run succeed
  word_list,      \* load_words() / WORD_LIST: the loaded (cached) dictionary
  letters,        \* st.session_state.letters: list of 7 characters
  center,         \* st.session_state.center / middle_letter / middle
  valid_words,    \* st.session_state.valid_words
  outer_order,    \* st.session_state.outer_order / outer: display order
  pangram_word,   \* st.session_state.pangram_word (streamlit only)
  current_word,   \* st.session_state.current_word / input_word / typed
  words_entered,  \* st.session_state.words_entered / words_found / words
  score,          \* st.session_state.score
  game_over,      \* st.session_state.game_over
  message,        \* kind of the last message / warning shown by Submit
  submitted,      \* the text the last Submit handler read from the input box
  path            \* which return of the generator produced the puzzle

vars == <<app, pc, source, online, word_list, letters, center, valid_words, outer_order,
          pangram_word, current_word, words_entered, score, game_over, message,
          submitted, path>>

Apps == {"app", "app2", "streamlit"}

(***************************************************************************)
(* Python string and list primitives                                       *)
(***************************************************************************)
LOWERCASE == "abcdefghijklmnopqrstuvwxyz"
UPPERCASE == "ABCDEFGHIJKLMNOPQRSTUVWXYZ"

At(s, i) == SubSeq(s, i, i)

\* set(word)
Chars(s) == {At(s, i) : i \in 1..Len(s)}

\* list(word)
ListOf(s) == [i \in 1..Len(s) |-> At(s, i)]

\* set(list)
Elems(l) == {l[i] : i \in 1..Len(l)}

IndexIn(alphabet, c) == CHOOSE i \in 1..Len(alphabet) : At(alphabet, i) = c

LowerLetters == Chars(LOWERCASE)

UpperLetters == Chars(UPPERCASE)

\* the lowercase of each uppercase letter, and the uppercase of each lowercase letter
LowerMap == [c \in UpperLetters |-> At(LOWERCASE, IndexIn(UPPERCASE, c))]

UpperMap == [c \in LowerLetters |-> At(UPPERCASE, IndexIn(LOWERCASE, c))]

LowerCh(c) == IF c \in UpperLetters THEN LowerMap[c] ELSE c

UpperCh(c) == IF c \in LowerLetters THEN UpperMap[c] ELSE c

RECURSIVE ToLower(_)
\* str.lower()
ToLower(s) == IF Len(s) = 0 THEN "" ELSE LowerCh(At(s, 1)) \o ToLower(SubSeq(s, 2, Len(s)))

RECURSIVE ToUpper(_)
\* str.upper()
ToUpper(s) == IF Len(s) = 0 THEN "" ELSE UpperCh(At(s, 1)) \o ToUpper(SubSeq(s, 2, Len(s)))

RECURSIVE LStrip(_)
LStrip(s) == IF Len(s) > 0 /\ At(s, 1) = " " THEN LStrip(SubSeq(s, 2, Len(s))) ELSE s

RECURSIVE RStrip(_)
RStrip(s) == IF Len(s) > 0 /\ At(s, Len(s)) = " " THEN RStrip(SubSeq(s, 1, Len(s) - 1)) ELSE s

\* str.strip()
Strip(s) == RStrip(LStrip(s))

\* str.isalpha()
IsAlpha(s) == Len(s) > 0 /\ \A c \in Chars(s) : c \in LowerLetters \/ c \in UpperLetters

\* ch in word
InWord(c, s) == c \in Chars(s)

(***************************************************************************)
(* Program constants                                                       *)
(***************************************************************************)
\* app.py:40 MAX_WORDS, spell_bee_streamlit.py:23 MAX_VALID_WORDS
MAX_WORDS == 3

\* spell_bee_streamlit.py:22 MIN_WORD_LEN; the literal 4 of app.py:121, app2.py:66
MIN_WORD_LEN == 4

\* the literal 7 of app.py:65, app2.py:60, spell_bee_streamlit.py:78,84,128
PANGRAM_LETTERS == 7

\* the literal 10 of app.py:71
MIN_VALID_WORDS == 10

\* the pattern "????????" of spell_bee_streamlit.py:69
CANDIDATE_LEN == 8

\* SCORING (app.py:39), scores (app2.py:79), SCORE_MAP (spell_bee_streamlit.py:24)
SCORING == (4 :> 2) @@ (5 :> 4) @@ (6 :> 6) @@ (7 :> 8)

\* the except branch of load_words (app.py:56-58)
FALLBACK_WORDS == <<
    "planet", "general", "lantern", "pattern", "explain", "related",
    "partner", "garden", "danger", "ranged", "learning", "triangle",
    "integral", "altering", "orange", "granola">>

\* the fallback letters of find_good_set (app.py:75)
FALLBACK_LETTERS == "planetg"

FALLBACK_PANGRAMS == {
    "complex", "orchids", "jumping", "flatbed", "strange", "cupboard",
    "blanket", "diamond"}

FALLBACK_WORDSET == {
    "time", "mind", "love", "game", "word", "play",
    "test", "team", "code", "make", "take", "note",
    "tone", "stone", "alone", "phone", "sleep", "chair",
    "table", "drink", "write", "bring", "light", "right",
    "might", "night", "thing", "there", "their", "water",
    "small", "large", "apple", "grape", "peace", "heart",
    "earth", "ready", "story", "happy", "smile", "house",
    "mouse", "dream", "learn", "study"}

(***************************************************************************)
(* The external word sources the model draws from.  Corpus stands for the  *)
(* lines of words_alpha.txt (app.py, app2.py) and for the vocabulary of    *)
(* the Datamuse service (spell_bee_streamlit.py).                          *)
(***************************************************************************)
Corpus == <<
    "learning", "angel", "angle", "glare", "large", "regal",
    "range", "anger", "near", "earn", "linger", "reign",
    "explain", "explains", "planet", "plane", "gel">>

\* a source keeps all but at most MaxMissing lines of the corpus ...
MaxMissing == 2

\* ... or holds at most MaxSmall of them
MaxSmall == 1

\* the random orders drawn are the rotations by 0..MaxRot of a list
MaxRot == 1

\* the random letters drawn to pad a short fallback pangram are among the first
\* MaxPad letters of the alphabet that are still unused
MaxPad == 2

\* the lengths scored in isolation are 0..MaxLen
MaxLen == 20

\* the already-entered lists handed to a submission in isolation hold at most MaxEntered words
MaxEntered == 2

Min(a, b) == IF a < b THEN a ELSE b

\* the lines of the corpus whose index is in keep, in corpus order
SubCorpus(keep) ==
  LET F[i \in 0..Len(Corpus)] ==
        IF i = 0 THEN <<>>
        ELSE IF i \in keep THEN Append(F[i - 1], Corpus[i]) ELSE F[i - 1]
  IN F[Len(Corpus)]

CorpusIndex == 1..Len(Corpus)

GenSources ==
  {SubCorpus(CorpusIndex \ drop) :
      drop \in {d \in SUBSET CorpusIndex : Cardinality(d) <= MaxMissing}}
  \cup {SubCorpus(keep) :
      keep \in {k \in SUBSET CorpusIndex : Cardinality(k) <= MaxSmall}}

\* the corpus with a word of more than 8 letters made of the letters of its first line
PlayCorpus == Append(Corpus, "realigning")

\* the sources a played session starts from: the longer corpus, and the corpus
\* without its first line (no seven-letter word reaches the threshold)
PlaySources == {PlayCorpus, SubSeq(Corpus, 2, Len(Corpus))}

\* random.shuffle / random.sample / iteration order of a set: a permutation of 1..n
ShuffleOrders(n) ==
  IF n = 0 THEN {<<>>}
  ELSE {[i \in 1..n |-> ((i - 1 + r) % n) + 1] : r \in 0..Min(MaxRot, n - 1)}

\* the list l read in the order p
Permute(l, p) == [i \in 1..Len(l) |-> l[p[i]]]

(***************************************************************************)
(* app.py: load_words and find_good_set                                    *)
(***************************************************************************)
\* [f(x) for x in l]
MapSeq(l, f(_)) == [i \in 1..Len(l) |-> f(l[i])]

\* load_words(): ok says whether requests.get succeeded
load_words(lines, ok) ==
  LET words == IF ok
               THEN MapSeq(SelectSeq(lines, IsAlpha), LAMBDA w : ToLower(Strip(w)))
               ELSE FALLBACK_WORDS
  IN SelectSeq(words, LAMBDA w : Len(w) >= MIN_WORD_LEN)

LowerList == ListOf(LOWERCASE)

\* sorted(set(cand)) for lowercase letters
SortedChars(S) == SelectSeq(LowerList, LAMBDA c : c \in S)

\* [w for w in word_list if set(w) <= set(letters) and center in w]
ValidFor(wl, ls, c) ==
  SelectSeq(wl, LAMBDA w : Chars(w) \subseteq Elems(ls) /\ InWord(c, w))

\* [l for l in letters if l != center]
OuterOf(ls, c) == SelectSeq(ls, LAMBDA l : l # c)

\* the inner loop of find_good_set: the first center, from position i on, whose
\* valid list reaches the threshold; 0 when there is none
RECURSIVE FirstGoodCenter(_, _, _)
FirstGoodCenter(wl, ls, i) ==
  IF i > Len(ls) THEN 0
  ELSE IF Len(ValidFor(wl, ls, ls[i])) >= MIN_VALID_WORDS THEN i
  ELSE FirstGoodCenter(wl, ls, i + 1)

\* [w for w in word_list if len(set(w)) == 7 and len(w) >= 7]
PangramsOf(wl) ==
  SelectSeq(wl, LAMBDA w : Cardinality(Chars(w)) = PANGRAM_LETTERS /\ Len(w) >= PANGRAM_LETTERS)

\* the fallback of find_good_set
FallbackSet(wl, sample) ==
  LET ls == ListOf(FALLBACK_LETTERS)
      c  == ls[1]
  IN [letters |-> ls, center |-> c, valid |-> ValidFor(wl, ls, c),
      outer |-> Permute(OuterOf(ls, c), sample), path |-> "fallback"]

\* the outer loop of find_good_set over the shuffled pangrams, from position k on
RECURSIVE ScanCandidates(_, _, _, _)
ScanCandidates(wl, cands, k, sample) ==
  IF k > Len(cands) THEN FallbackSet(wl, sample)
  ELSE LET ls == SortedChars(Chars(cands[k]))
           i  == FirstGoodCenter(wl, ls, 1)
       IN IF i # 0
          THEN [letters |-> ls, center |-> ls[i], valid |-> ValidFor(wl, ls, ls[i]),
                outer |-> Permute(OuterOf(ls, ls[i]), sample), path |-> "primary"]
          ELSE ScanCandidates(wl, cands, k + 1, sample)

\* find_good_set(word_list): order is the outcome of random.shuffle(pangrams),
\* sample the outcome of random.sample(outer, len(outer))
find_good_set(wl, order, sample) ==
  ScanCandidates(wl, Permute(PangramsOf(wl), order), 1, sample)

(***************************************************************************)
(* app2.py: load_word_list and choose_letters                              *)
(***************************************************************************)
\* load_word_list(): set(w.lower() for w in words if w.isalpha())
load_word_list(lines) == {ToLower(w) : w \in {x \in Elems(lines) : IsAlpha(x)}}

\* the words on which the loop of choose_letters returns
SevenLetterWords(wl) == {w \in wl : Cardinality(Chars(w)) = PANGRAM_LETTERS}

\* choose_letters(): what the loop can return.  list(set(pangram)) lists the
\* letters in the order the set iterates, setorder; middle is random.choice(letters)
choose_letters(wl) ==
  UNION {{[letters |-> Permute(SortedChars(Chars(w)), setorder), center |-> m] :
            setorder \in ShuffleOrders(PANGRAM_LETTERS), m \in Chars(w)} :
         w \in SevenLetterWords(wl)}

(***************************************************************************)
(* spell_bee_streamlit.py: the Datamuse helpers and choose_puzzle_letters  *)
(***************************************************************************)
RECURSIVE AlphaOnly(_)
\* "".join([c for c in candidate if c.isalpha()])
AlphaOnly(s) ==
  IF Len(s) = 0 THEN ""
  ELSE (IF IsAlpha(At(s, 1)) THEN At(s, 1) ELSE "") \o AlphaOnly(SubSeq(s, 2, Len(s)))

RECURSIVE UniqueFrom(_, _, _)
\* the loops "for ch in ...: if ch.isalpha() and ch not in unique: unique.append(ch);
\* if len(unique) == 7: break", from position i on
UniqueFrom(s, i, unique) ==
  IF i > Len(s) THEN unique
  ELSE LET u == IF IsAlpha(At(s, i)) /\ At(s, i) \notin Elems(unique)
                THEN Append(unique, At(s, i)) ELSE unique
       IN IF Len(u) = PANGRAM_LETTERS THEN u ELSE UniqueFrom(s, i + 1, u)

RECURSIVE Join(_)
\* "".join(list)
Join(l) == IF Len(l) = 0 THEN "" ELSE Head(l) \o Join(Tail(l))

\* datamuse_find_pangram_candidate(): the strings it can return, "" standing for
\* None.  data is the answer to sp=????????; any of its words may be drawn in each
\* attempt, so a word that does not qualify can be drawn in all of them.
datamuse_find_pangram_candidate(vocab, api_ok) ==
  LET data == {w \in vocab : Len(w) = CANDIDATE_LEN}
      cand(w) == AlphaOnly(ToLower(w))
      good == {w \in data : /\ Len(cand(w)) >= PANGRAM_LETTERS
                            /\ Cardinality(Chars(cand(w))) >= PANGRAM_LETTERS}
  IN IF ~api_ok \/ data = {} THEN {""}
     ELSE {Join(UniqueFrom(cand(w), 1, <<>>)) : w \in good}
          \cup (IF data \ good # {} THEN {""} ELSE {})

\* datamuse_words_using_letters(letters_string): the vocabulary's words matching the
\* pattern [letters]{4,}, or the empty set when the request fails
datamuse_words_using_letters(vocab, letters_string, api_ok) ==
  IF api_ok
  THEN {ToLower(w) : w \in {x \in vocab : /\ Len(x) >= MIN_WORD_LEN
                                          /\ Chars(x) \subseteq Chars(letters_string)}}
  ELSE {}

\* the padding loop left out
Padded_NoPad(unique) == {unique}

RECURSIVE Padded(_)
\* "while len(unique) < 7: c = random.choice(string.ascii_lowercase) ..."
Padded(unique) ==
  IF Len(unique) >= PANGRAM_LETTERS THEN {unique}
  ELSE LET unused == SelectSeq(LowerList, LAMBDA c : c \notin Elems(unique))
           drawn == SubSeq(unused, 1, Min(MaxPad, Len(unused)))
       IN UNION {Padded(Append(unique, c)) : c \in Elems(drawn)}

\* the primary return of choose_puzzle_letters for the candidate letters u
PrimaryPuzzles(vocab, u, api_ok) ==
  LET words == datamuse_words_using_letters(vocab, u, api_ok)
      pangrams == {w \in words : Cardinality(Chars(w)) >= PANGRAM_LETTERS}
  IN {[letters |-> ListOf(ToUpper(u)), valid |-> {ToLower(w) : w \in words},
       pangram |-> pw, path |-> "primary"] : pw \in pangrams}

\* the fallback return of choose_puzzle_letters
FallbackPuzzles ==
  LET puzzle(fallback, unique) ==
        LET letters_set == MapSeq(unique, UpperCh)
            lowered == Elems(MapSeq(letters_set, LowerCh))
        IN [letters |-> letters_set,
            valid |-> {w \in FALLBACK_WORDSET :
                         \A ch \in Chars(w) :
                            ch \in Elems(letters_set) \/ LowerCh(ch) \in lowered},
            pangram |-> fallback, path |-> "fallback"]
  IN UNION {{puzzle(fallback, unique) :
               unique \in Padded(UniqueFrom(ToLower(fallback), 1, <<>>))} :
            fallback \in FALLBACK_PANGRAMS}

\* choose_puzzle_letters(): every (letters_set, valid_words, pangram_word) it can return
choose_puzzle_letters(vocab, api1, api2) ==
  LET cands == datamuse_find_pangram_candidate(vocab, api1)
  IN UNION {PrimaryPuzzles(vocab, u, api2) : u \in cands \ {""}}
     \cup (IF \E u \in cands : u = "" \/ PrimaryPuzzles(vocab, u, api2) = {}
           THEN FallbackPuzzles ELSE {})

\* possible_centers of the session-state init, or letters when it is empty
MiddleChoices(ls, pw) ==
  LET possible == {UpperCh(c) : c \in {x \in Elems(ls) : InWord(LowerCh(x), ToLower(pw))}}
  IN IF possible # {} THEN possible ELSE Elems(ls)

(***************************************************************************)
(* Scoring                                                                 *)
(***************************************************************************)
\* app.py points_for_length(n)
points_for_length(n) ==
  IF n < 4 THEN 0
  ELSE IF n \in DOMAIN SCORING THEN SCORING[n] ELSE 8

\* app2.py score_word(word): scores.get(len(word), len(word))
score_word(word) ==
  IF Len(word) \in DOMAIN SCORING THEN SCORING[Len(word)] ELSE Len(word)

\* spell_bee_streamlit.py:315
\* pts = SCORE_MAP.get(len(w), 0) if len(w) <= 7 else SCORE_MAP.get(7, 8)
streamlit_points(w) ==
  IF Len(w) <= 7
  THEN (IF Len(w) \in DOMAIN SCORING THEN SCORING[Len(w)] ELSE 0)
  ELSE (IF 7 \in DOMAIN SCORING THEN SCORING[7] ELSE 8)

(***************************************************************************)
(* Validation: the branch each Submit handler takes                        *)
(***************************************************************************)
\* submit_word without the dictionary test
submit_word_branch_NoDictionary(word, c, ls, wl, entered) ==
  IF Len(word) < 4 THEN "TooShort"
  ELSE IF ~InWord(c, word) THEN "MissingCenter"
  ELSE IF \E ch \in Chars(word) : ch \notin Elems(ls) THEN "InvalidLetters"
  ELSE IF word \in Elems(entered) THEN "Duplicate"
  ELSE "Accepted"

\* app.py submit_word: the if/elif chain
submit_word_branch(word, c, ls, wl, entered) ==
  IF Len(word) < 4 THEN "TooShort"
  ELSE IF ~InWord(c, word) THEN "MissingCenter"
  ELSE IF \E ch \in Chars(word) : ch \notin Elems(ls) THEN "InvalidLetters"
  ELSE IF word \notin Elems(wl) THEN "NotInDictionary"
  ELSE IF word \in Elems(entered) THEN "Duplicate"
  ELSE "Accepted"

\* app2.py is_valid_word(word, letters, middle_letter); "Accepted" stands for None
is_valid_word(word, ls, m, wl, found) ==
  IF Len(word) < 4 THEN "TooShort"
  ELSE IF ~InWord(m, word) THEN "MissingCenter"
  ELSE IF ~(Chars(word) \subseteq Elems(ls)) THEN "InvalidLetters"
  ELSE IF word \notin wl THEN "NotInDictionary"
  ELSE IF word \in Elems(found) THEN "Duplicate"
  ELSE "Accepted"

\* the Submit Word handler comparing the lowercased word with the stored words as
\* they are, in uppercase
streamlit_branch_CaseSensitive(w, outer, m, words, valid) ==
  LET allowed == Elems(MapSeq(outer, UpperCh)) \cup {ToUpper(m)}
      lw == ToLower(w)
      ok == IF valid # {} THEN lw \in valid ELSE lw \in FALLBACK_WORDSET
  IN IF Len(w) = 0 THEN "Empty"
     ELSE IF Len(w) < MIN_WORD_LEN THEN "TooShort"
     ELSE IF ~InWord(m, w) THEN "MissingCenter"
     ELSE IF ~(\A ch \in Chars(w) : ch \in allowed) THEN "InvalidLetters"
     ELSE IF ToLower(w) \in Elems(words) THEN "Duplicate"
     ELSE IF ~ok THEN "NotInDictionary"
     ELSE "Accepted"

\* spell_bee_streamlit.py Submit Word handler: the if/elif chain and the dictionary test
streamlit_branch(w, outer, m, words, valid) ==
  LET allowed == Elems(MapSeq(outer, UpperCh)) \cup {ToUpper(m)}
      lw == ToLower(w)
      ok == IF valid # {} THEN lw \in valid ELSE lw \in FALLBACK_WORDSET
  IN IF Len(w) = 0 THEN "Empty"
     ELSE IF Len(w) < MIN_WORD_LEN THEN "TooShort"
     ELSE IF ~InWord(m, w) THEN "MissingCenter"
     ELSE IF ~(\A ch \in Chars(w) : ch \in allowed) THEN "InvalidLetters"
     ELSE IF ToLower(w) \in Elems(MapSeq(words, ToLower)) THEN "Duplicate"
     ELSE IF ~ok THEN "NotInDictionary"
     ELSE "Accepted"

\* what the user can type into the input box
Inputs == {"", "gel", "lean", "ring", "plane", "angel", "large", "Large", " near ",
           "realigning"}

(***************************************************************************)
(* app.py: actions                                                         *)
(***************************************************************************)
\* init_game() after find_good_set returned g for the word list wl
init_game(wl, g) ==
  /\ word_list' = wl
  /\ letters' = g.letters
  /\ center' = g.center
  /\ valid_words' = g.valid
  /\ outer_order' = g.outer
  /\ path' = g.path
  /\ current_word' = ""
  /\ words_entered' = <<>>
  /\ score' = 0
  /\ message' = "None"
  /\ game_over' = FALSE
  /\ submitted' = ""
  /\ pangram_word' = ""
  /\ pc' = "play"
  /\ UNCHANGED <<app, source, online>>

\* first run of the script: "letters" not in st.session_state
InitGame_app ==
  /\ app = "app" /\ pc = "start"
  /\ LET wl == load_words(source, online)
     IN \E order \in ShuffleOrders(Len(PangramsOf(wl))),
           sample \in ShuffleOrders(PANGRAM_LETTERS - 1) :
          init_game(wl, find_good_set(wl, order, sample))

\* restart(): init_game() again; load_words() is cached by st.cache_data
Restart_app ==
  /\ app = "app" /\ pc = "play"
  /\ \E order \in ShuffleOrders(Len(PangramsOf(word_list))),
        sample \in ShuffleOrders(PANGRAM_LETTERS - 1) :
       init_game(word_list, find_good_set(word_list, order, sample))

\* submit_word() appending the word on every branch, the rejecting ones included
Submit_app_RecordsRejected(input) ==
  /\ app = "app" /\ pc = "play" /\ ~game_over
  /\ LET word == ToLower(input)
     IN /\ message' = submit_word_branch(word, center, letters, word_list, words_entered)
        /\ words_entered' = Append(words_entered, word)
        /\ game_over' = IF Len(words_entered) + 1 >= MAX_WORDS THEN TRUE ELSE game_over
        /\ score' = IF message' = "Accepted" THEN score + points_for_length(Len(word)) ELSE score
  /\ current_word' = ""
  /\ submitted' = input
  /\ UNCHANGED <<app, pc, source, online, word_list, letters, center, valid_words, outer_order,
                 pangram_word, path>>

\* the text input followed by the "Submit Word" button: submit_word()
Submit_app(input) ==
  /\ app = "app" /\ pc = "play" /\ ~game_over
  /\ LET word == ToLower(input)
         branch == submit_word_branch(word, center, letters, word_list, words_entered)
         pts == points_for_length(Len(word))
     IN /\ message' = branch
        /\ IF branch = "Accepted"
           THEN /\ score' = score + pts
                /\ words_entered' = Append(words_entered, word)
                /\ game_over' = IF Len(words_entered) + 1 >= MAX_WORDS THEN TRUE ELSE game_over
           ELSE UNCHANGED <<score, words_entered, game_over>>
  /\ current_word' = ""
  /\ submitted' = input
  /\ UNCHANGED <<app, pc, source, online, word_list, letters, center, valid_words, outer_order,
                 pangram_word, path>>

\* reshuffle()
Reshuffle_app ==
  /\ app = "app" /\ pc = "play" /\ ~game_over
  /\ \E sample \in ShuffleOrders(Len(OuterOf(letters, center))) :
       outer_order' = Permute(OuterOf(letters, center), sample)
  /\ UNCHANGED <<app, pc, source, online, word_list, letters, center, valid_words, pangram_word,
                 current_word, words_entered, score, game_over, message, submitted, path>>

\* the "Exit" button
Exit_app ==
  /\ app = "app" /\ pc = "play" /\ ~game_over
  /\ game_over' = TRUE
  /\ UNCHANGED <<app, pc, source, online, word_list, letters, center, valid_words, outer_order,
                 pangram_word, current_word, words_entered, score, message, submitted, path>>

(***************************************************************************)
(* app2.py: actions.  The program keeps no game_over flag, no valid_words  *)
(* and no maximum number of words; game_over stays FALSE, valid_words <<>>. *)
(***************************************************************************)
\* reset_game() after choose_letters returned r
reset_game(r) ==
  /\ letters' = r.letters
  /\ center' = r.center
  /\ outer_order' = OuterOf(r.letters, r.center)
  /\ words_entered' = <<>>
  /\ score' = 0
  /\ current_word' = ""
  /\ message' = "None"
  /\ submitted' = ""
  /\ path' = "primary"
  /\ pc' = "play"

\* first run of the script: WORD_LIST = load_word_list(); reset_game()
InitGame_app2 ==
  /\ app = "app2" /\ pc = "start"
  /\ IF ~online
     THEN \* requests.get raises: nothing catches it
          /\ pc' = "load_failed"
          /\ UNCHANGED <<word_list, letters, center, outer_order, words_entered, score,
                         current_word, message, submitted, path>>
     ELSE LET wl == load_word_list(source)
          IN /\ word_list' = wl
             /\ IF wl = {}
                THEN \* random.choice([]) raises IndexError
                     /\ pc' = "raised"
                     /\ UNCHANGED <<letters, center, outer_order, words_entered, score,
                                    current_word, message, submitted, path>>
                ELSE IF SevenLetterWords(wl) = {}
                THEN \* "while True" never returns
                     /\ pc' = "looping"
                     /\ UNCHANGED <<letters, center, outer_order, words_entered, score,
                                    current_word, message, submitted, path>>
                ELSE \E r \in choose_letters(wl) : reset_game(r)
  /\ UNCHANGED <<app, source, online, valid_words, pangram_word, game_over>>

\* the "Restart" button: reset_game()
Restart_app2 ==
  /\ app = "app2" /\ pc = "play"
  /\ \E r \in choose_letters(word_list) : reset_game(r)
  /\ UNCHANGED <<app, source, online, word_list, valid_words, pangram_word, game_over>>

\* the "Submit" button
Submit_app2(input) ==
  /\ app = "app2" /\ pc = "play"
  /\ LET w == ToLower(input)
         err == is_valid_word(w, letters, center, word_list, words_entered)
     IN /\ message' = err
        /\ IF err = "Accepted"
           THEN /\ words_entered' = Append(words_entered, w)
                /\ score' = score + score_word(w)
           ELSE UNCHANGED <<words_entered, score>>
  /\ current_word' = ""
  /\ submitted' = input
  /\ UNCHANGED <<app, pc, source, online, word_list, letters, center, valid_words, outer_order,
                 pangram_word, game_over, path>>

\* the slice after the middle letter starting one place late
around_middle_OffByOne(outer, m) ==
  SubSeq(outer, 1, 3) \o <<m>> \o SubSeq(outer, 5, Len(outer))

\* outer[:3] + [middle_letter] + outer[3:]
around_middle(outer, m) ==
  SubSeq(outer, 1, 3) \o <<m>> \o SubSeq(outer, 4, Len(outer))

\* reshuffle_letters()
Reshuffle_app2 ==
  /\ app = "app2" /\ pc = "play"
  /\ \E p \in ShuffleOrders(Len(OuterOf(letters, center))) :
       LET outer == Permute(OuterOf(letters, center), p)
           ls == around_middle(outer, center)
       IN /\ letters' = ls
          /\ outer_order' = OuterOf(ls, center)
  /\ UNCHANGED <<app, pc, source, online, word_list, center, valid_words, pangram_word,
                 current_word, words_entered, score, game_over, message, submitted, path>>

(***************************************************************************)
(* spell_bee_streamlit.py: actions                                         *)
(***************************************************************************)
\* the block under 'if "initialized" not in st.session_state'
SessionInit_streamlit ==
    \E g \in choose_puzzle_letters(Elems(source), online, online) :
      \E middle \in MiddleChoices(g.letters, g.pangram) :
        \E p \in ShuffleOrders(Len(OuterOf(g.letters, middle))) :
          /\ letters' = g.letters
          /\ center' = middle
          /\ outer_order' = Permute(OuterOf(g.letters, middle), p)
          /\ current_word' = ""
          /\ words_entered' = <<>>
          /\ score' = 0
          /\ message' = "None"
          /\ valid_words' = g.valid
          /\ pangram_word' = g.pangram
          /\ path' = g.path
          /\ game_over' = FALSE
          /\ submitted' = ""
          /\ pc' = "play"
          /\ UNCHANGED <<app, source, online, word_list>>

InitGame_streamlit ==
  /\ app = "streamlit" /\ pc = "start"
  /\ SessionInit_streamlit

\* "Restart Game": the keys are deleted and the script reruns the init block
Restart_streamlit ==
  /\ app = "streamlit" /\ pc = "play"
  /\ SessionInit_streamlit

\* the text input followed by the "Submit Word" button
Submit_streamlit(input) ==
  /\ app = "streamlit" /\ pc = "play"
  /\ LET typed == Strip(ToUpper(input))
         w == ToUpper(Strip(typed))
         branch == streamlit_branch(w, outer_order, center, words_entered, valid_words)
     IN /\ message' = branch
        /\ IF branch = "Accepted"
           THEN /\ words_entered' = Append(words_entered, w)
                /\ score' = score + streamlit_points(w)
                /\ current_word' = ""
                /\ game_over' = IF Len(words_entered) + 1 >= MAX_WORDS THEN TRUE ELSE game_over
           ELSE /\ current_word' = typed
                /\ UNCHANGED <<words_entered, score, game_over>>
  /\ submitted' = input
  /\ UNCHANGED <<app, pc, source, online, word_list, letters, center, valid_words, outer_order,
                 pangram_word, path>>

\* "Reshuffle": random.shuffle(st.session_state.outer)
Reshuffle_streamlit ==
  /\ app = "streamlit" /\ pc = "play"
  /\ \E p \in ShuffleOrders(Len(outer_order)) : outer_order' = Permute(outer_order, p)
  /\ UNCHANGED <<app, pc, source, online, word_list, letters, center, valid_words, pangram_word,
                 current_word, words_entered, score, game_over, message, submitted, path>>

\* "Exit": st.stop() ends this run of the script and changes no session state
Exit_streamlit ==
  /\ app = "streamlit" /\ pc = "play"
  /\ UNCHANGED vars

(***************************************************************************)
(* Specifications                                                          *)
(***************************************************************************)
\* the state before the first run of the script, for a word source among sources
Start(sources) ==
  /\ app \in Apps
  /\ pc = "start"
  /\ source \in sources
  /\ online \in BOOLEAN
  /\ word_list = <<>>
  /\ letters = <<>>
  /\ center = ""
  /\ valid_words = <<>>
  /\ outer_order = <<>>
  /\ pangram_word = ""
  /\ current_word = ""
  /\ words_entered = <<>>
  /\ score = 0
  /\ game_over = FALSE
  /\ message = "None"
  /\ submitted = ""
  /\ path = "none"

Init == Start(PlaySources)

InitGame == InitGame_app \/ InitGame_app2 \/ InitGame_streamlit

Submit == \E input \in Inputs : Submit_app(input) \/ Submit_app2(input) \/ Submit_streamlit(input)

Reshuffle == Reshuffle_app \/ Reshuffle_app2 \/ Reshuffle_streamlit

Restart == Restart_app \/ Restart_app2 \/ Restart_streamlit

Exit == Exit_app \/ Exit_streamlit

Next == InitGame \/ Submit \/ Reshuffle \/ Restart \/ Exit

\* a played session
Spec == Init /\ [][Next]_vars

\* a played session in which Exit and Restart are never pressed
NextNoExit == InitGame \/ Submit \/ Reshuffle

SpecNoExit == Init /\ [][NextNoExit]_vars

\* puzzle generation alone, over the generated word sources
InitGen == Start(GenSources)

SpecGen == InitGen /\ [][InitGame]_vars

\* the words a list of already-entered words is drawn from
EnteredPool == {"angel", "lean"}

\* the lists of at most MaxEntered already-entered words
EnteredLists == UNION {[1..n -> EnteredPool] : n \in 0..MaxEntered}

\* a Submit handler run on its own: any generated puzzle of the whole corpus, and
\* any list of already-entered words, whether or not a session can have built it
InitValidate ==
  /\ app \in Apps
  /\ pc = "play"
  /\ source = Corpus
  /\ online = TRUE
  /\ \E entered \in EnteredLists :
       words_entered = IF app = "streamlit" THEN MapSeq(entered, ToUpper) ELSE entered
  /\ \E sample \in ShuffleOrders(PANGRAM_LETTERS - 1) :
       CASE app = "app" ->
              LET wl == load_words(source, online)
              IN \E order \in ShuffleOrders(Len(PangramsOf(wl))) :
                   LET g == find_good_set(wl, order, sample)
                   IN /\ word_list = wl
                      /\ letters = g.letters
                      /\ center = g.center
                      /\ valid_words = g.valid
                      /\ outer_order = g.outer
                      /\ pangram_word = ""
                      /\ path = g.path
         [] app = "app2" ->
              \E r \in choose_letters(load_word_list(source)) :
                 /\ word_list = load_word_list(source)
                 /\ letters = r.letters
                 /\ center = r.center
                 /\ valid_words = <<>>
                 /\ outer_order = OuterOf(r.letters, r.center)
                 /\ pangram_word = ""
                 /\ path = "primary"
         [] app = "streamlit" ->
              \E g \in choose_puzzle_letters(Elems(source), online, online) :
                \E middle \in MiddleChoices(g.letters, g.pangram) :
                   /\ word_list = <<>>
                   /\ letters = g.letters
                   /\ center = middle
                   /\ valid_words = g.valid
                   /\ outer_order = Permute(OuterOf(g.letters, middle), sample)
                   /\ pangram_word = g.pangram
                   /\ path = g.path
  /\ current_word = ""
  /\ score = 0
  /\ game_over = FALSE
  /\ message = "None"
  /\ submitted = ""

SpecValidate == InitValidate /\ [][Submit]_vars

RECURSIVE WordOfLength(_)
\* a word of n letters
WordOfLength(n) == IF n = 0 THEN "" ELSE "a" \o WordOfLength(n - 1)

\* a scoring function called on its own, for a word of 0..MaxLen letters
InitScore ==
  /\ app \in Apps
  /\ pc = "call"
  /\ \E n \in 0..MaxLen : submitted = WordOfLength(n)
  /\ source = <<>>
  /\ online = TRUE
  /\ word_list = <<>>
  /\ letters = <<>>
  /\ center = ""
  /\ valid_words = <<>>
  /\ outer_order = <<>>
  /\ pangram_word = ""
  /\ current_word = ""
  /\ words_entered = <<>>
  /\ score = 0
  /\ game_over = FALSE
  /\ message = "None"
  /\ path = "none"

\* the call returns the points in score
Returns(points) ==
  /\ pc = "call"
  /\ score' = points
  /\ pc' = "returned"
  /\ UNCHANGED <<app, source, online, word_list, letters, center, valid_words, outer_order,
                 pangram_word, current_word, words_entered, game_over, message, submitted,
                 path>>

Score_app == app = "app" /\ Returns(points_for_length(Len(submitted)))

Score_app2 == app = "app2" /\ Returns(score_word(submitted))

Score_streamlit == app = "streamlit" /\ Returns(streamlit_points(submitted))

NextScore == Score_app \/ Score_app2 \/ Score_streamlit

SpecScore == InitScore /\ [][NextScore]_vars

(***************************************************************************)
(* Observations the claims are stated over                                 *)
(***************************************************************************)
\* the last submission as the program normalises it, in lowercase
NormalisedWord ==
  IF app = "streamlit" THEN ToLower(Strip(ToUpper(submitted))) ELSE ToLower(submitted)

LowerLettersOfPuzzle == {LowerCh(l) : l \in Elems(letters)}

LowerEntered == {ToLower(w) : w \in Elems(words_entered)}

\* the list of entered words as it was before the last submission
EnteredBefore ==
  IF message = "Accepted" /\ Len(words_entered) > 0
  THEN {ToLower(words_entered[i]) : i \in 1..(Len(words_entered) - 1)}
  ELSE LowerEntered

\* the dictionary a submission is looked up in
ActiveDictionary ==
  CASE app = "app" -> Elems(word_list)
    [] app = "app2" -> word_list
    [] app = "streamlit" -> IF valid_words # {} THEN valid_words ELSE FALLBACK_WORDSET

\* the first failing check, in the order TooShort, MissingCenter, InvalidLetters,
\* NotInDictionary, Duplicate
FirstFailingCheck(word, ls, c, dict, entered) ==
  IF Len(word) < MIN_WORD_LEN THEN "TooShort"
  ELSE IF c \notin Chars(word) THEN "MissingCenter"
  ELSE IF ~(Chars(word) \subseteq ls) THEN "InvalidLetters"
  ELSE IF word \notin dict THEN "NotInDictionary"
  ELSE IF word \in entered THEN "Duplicate"
  ELSE "Accepted"

(***************************************************************************)
(* C1                                                                      *)
(***************************************************************************)
\* C1: for every submitted word, puzzle and list of already-entered words, Submit
\* reports the first failing check in the order TooShort, MissingCenter,
\* InvalidLetters, NotInDictionary, Duplicate, and accepts only if all five pass.
C1_FirstFailingCheck ==
  (pc = "play" /\ message # "None") =>
     message = FirstFailingCheck(NormalisedWord, LowerLettersOfPuzzle, LowerCh(center),
                                 ActiveDictionary, EnteredBefore)

(***************************************************************************)
(* C2                                                                      *)
(***************************************************************************)
\* C2: in a session in which Exit and Restart are not pressed, the over flag is
\* false while fewer than MAX_WORDS words have been accepted and true from the
\* step that applies the third accepted word on.
C2_OverExactlyAtThirdWord ==
  pc = "play" => (game_over <=> Len(words_entered) >= MAX_WORDS)

(***************************************************************************)
(* C3                                                                      *)
(***************************************************************************)
\* the table of the claim
PointsTable(n) ==
  IF n < 4 THEN 0 ELSE IF n = 4 THEN 2 ELSE IF n = 5 THEN 4 ELSE IF n = 6 THEN 6 ELSE 8

\* C3: the points for a word of length n are 0 for n < 4, 2 for n = 4, 4 for
\* n = 5, 6 for n = 6 and 8 for every n >= 7.
C3_PointsTable ==
  pc = "returned" => score = PointsTable(Len(submitted))

(***************************************************************************)
(* C4                                                                      *)
(***************************************************************************)
\* C4: for every dictionary, the empty one and those without a word of seven
\* distinct letters included, puzzle generation terminates and returns a puzzle:
\* it never raises and never loops forever.
C4_GenerationReturns ==
  pc # "raised" /\ pc # "looping"

(***************************************************************************)
(* C5                                                                      *)
(***************************************************************************)
\* C5: every generated puzzle, on the primary and on the fallback path, has exactly
\* 7 pairwise distinct letters and a center among them, and the display order of
\* the outer letters has exactly 6 entries, none equal to the center.
C5_PuzzleShape ==
  pc = "play" =>
     /\ Len(letters) = 7
     /\ Cardinality(Elems(letters)) = 7
     /\ center \in Elems(letters)
     /\ Len(outer_order) = 6
     /\ center \notin Elems(outer_order)

\* a fallback puzzle whose pangram has fewer than seven distinct letters
C5_Witness ==
  pc = "play" /\ path = "fallback" /\ pangram_word = "diamond"

(***************************************************************************)
(* C6, C7                                                                  *)
(***************************************************************************)
\* the dictionary generation works on
Dictionary ==
  CASE app = "app" -> Elems(word_list)
    [] app = "app2" -> word_list
    [] app = "streamlit" ->
         IF online THEN {ToLower(w) : w \in {x \in Elems(source) : Len(x) >= MIN_WORD_LEN}}
         ELSE FALLBACK_WORDSET

\* st.session_state.valid_words as a set
ValidSet == IF app = "streamlit" THEN valid_words ELSE Elems(valid_words)

\* some word of exactly 7 distinct letters has, for some center, at least 10
\* dictionary words that use only its letters and contain the center
HasRichPangram(dict) ==
  \E w \in dict :
     /\ Cardinality(Chars(w)) = 7
     /\ \E c \in Chars(w) :
          Cardinality({v \in dict : Chars(v) \subseteq Chars(w) /\ c \in Chars(v)}) >= 10

\* C6: for every dictionary with a word of exactly 7 distinct letters for which
\* some center yields at least 10 dictionary words, generation returns a puzzle
\* whose validWords has at least 10 members and holds a pangram, and it does not
\* take the fallback path.
C6_ThresholdAndPangram ==
  (pc = "play" /\ app \in {"app", "streamlit"} /\ HasRichPangram(Dictionary)) =>
     /\ Cardinality(ValidSet) >= 10
     /\ \E v \in ValidSet : Chars(v) = LowerLettersOfPuzzle
     /\ path = "primary"

\* C7: in every generated puzzle every member of validWords is a dictionary word
\* whose characters all belong to the 7 letters and which contains the center.
C7_ValidWordsFit ==
  (pc = "play" /\ app \in {"app", "streamlit"}) =>
     \A v \in ValidSet :
        /\ v \in Dictionary \/ v \in FALLBACK_WORDSET
        /\ Chars(v) \subseteq LowerLettersOfPuzzle
        /\ LowerCh(center) \in Chars(v)

(***************************************************************************)
(* C8                                                                      *)
(***************************************************************************)
\* the last submission passes the length, center and letter checks
PassesLetterChecks ==
  /\ Len(NormalisedWord) >= MIN_WORD_LEN
  /\ LowerCh(center) \in Chars(NormalisedWord)
  /\ Chars(NormalisedWord) \subseteq LowerLettersOfPuzzle

\* C8: a submission that passes the length, center and letter checks is rejected
\* as NotInDictionary exactly when its lowercased form is not in validWords, and
\* every word in wordsEntered is a member of the puzzle's validWords.
C8_DictionaryIsValidWords ==
  (pc = "play" /\ app \in {"app", "streamlit"}) =>
     /\ LowerEntered \subseteq ValidSet
     /\ (message # "None" /\ PassesLetterChecks) =>
           (message = "NotInDictionary" <=> NormalisedWord \notin ValidSet)

\* a word was accepted and a later one, of the right letters, is not in the dictionary
C8_Witness ==
  /\ pc = "play" /\ app \in {"app", "streamlit"}
  /\ Len(words_entered) > 0
  /\ message = "NotInDictionary" /\ PassesLetterChecks

(***************************************************************************)
(* C9                                                                      *)
(***************************************************************************)
\* C9: after a reshuffle the stored outer order is a permutation of the letters
\* without the center, and the letter set and the center are as before.
C9_ReshufflePermutes ==
  [][Reshuffle =>
       /\ Len(outer_order') = 6
       /\ Cardinality(Elems(outer_order')) = 6
       /\ Elems(outer_order') = Elems(letters') \ {center'}
       /\ Elems(letters') = Elems(letters)
       /\ center' = center]_vars

\* an order only two reshuffles in a row produce: the outer letters rotated by two
C9_Witness ==
  /\ pc = "play" /\ app = "streamlit" /\ path = "primary"
  /\ outer_order = Permute(OuterOf(letters, center), <<3, 4, 5, 6, 1, 2>>)

(***************************************************************************)
(* C10                                                                     *)
(***************************************************************************)
\* C10: wordsEntered never holds a word twice, compared after case normalisation.
C10_NoDuplicates ==
  \A i \in 1..Len(words_entered) : \A j \in 1..Len(words_entered) :
     i # j => ToLower(words_entered[i]) # ToLower(words_entered[j])

\* a word was entered and the same word, typed in another case, was refused
C10_Witness ==
  /\ pc = "play" /\ message = "Duplicate"
  /\ submitted = "Large" /\ "large" \in Elems(words_entered)

(***************************************************************************)
(* C11                                                                     *)
(***************************************************************************)
\* the outcome the program's own Submit handler gives, in the current state, to
\* the text input
Classify(input) ==
  CASE app = "app" ->
         submit_word_branch(ToLower(input), center, letters, word_list, words_entered)
    [] app = "app2" ->
         is_valid_word(ToLower(input), letters, center, word_list, words_entered)
    [] app = "streamlit" ->
         streamlit_branch(ToUpper(Strip(Strip(ToUpper(input)))), outer_order, center,
                          words_entered, valid_words)

\* C11: every submission is classified as its trimmed lowercase form is, and a
\* submission that is empty after trimming is classified as TooShort.
C11_NormalisedBeforeChecks ==
  [][Submit =>
       /\ message' = Classify(ToLower(Strip(submitted')))
       /\ (Strip(submitted') = "" => message' = "TooShort")]_vars

(***************************************************************************)
(* C12                                                                     *)
(***************************************************************************)
\* C12: a submission that is not accepted leaves wordsEntered, score, the over
\* flag, the letters, the center and validWords as they were; an accepted one
\* appends one word, raises the score and leaves the puzzle as it was.
\* (Every Submit step leaves its outcome in message, so a step that leaves "None"
\* there is not one.)
C12_RejectedChangesNothing ==
  [][\/ /\ UNCHANGED <<letters, center, valid_words>>
        /\ IF message' = "Accepted"
           THEN /\ Len(words_entered') = Len(words_entered) + 1
                /\ SubSeq(words_entered', 1, Len(words_entered)) = words_entered
                /\ score' > score
           ELSE UNCHANGED <<words_entered, score, game_over>>
     \/ message' = "None"
     \/ ~Submit]_vars

\* two words were accepted and the next submission was refused for a letter
C12_Witness ==
  /\ pc = "play" /\ message = "InvalidLetters"
  /\ Len(words_entered) = 2 /\ score > 0 /\ ~game_over

(***************************************************************************)
(* C13                                                                     *)
(***************************************************************************)
\* C13: wordsEntered never holds more than MAX_WORDS words, and while the session
\* is over and is not restarted wordsEntered and score stay as they are.
C13_CappedAndFrozen ==
  [][/\ Len(words_entered') <= MAX_WORDS
     /\ (game_over /\ game_over') => UNCHANGED <<words_entered, score>>]_vars

(***************************************************************************)
(* C14                                                                     *)
(***************************************************************************)
RECURSIVE SumOfPoints(_)
\* the sum over the words of l of the points of the table for their length
SumOfPoints(l) ==
  IF l = <<>> THEN 0 ELSE PointsTable(Len(Head(l))) + SumOfPoints(Tail(l))

\* C14: the score is the sum of the points of the words in wordsEntered, hence
\* non-negative and 0 after start and restart, and a step that lowers it is a
\* restart.
C14_ScoreIsSumOfPoints ==
  /\ score = SumOfPoints(words_entered)
  /\ [][/\ score' = SumOfPoints(words_entered')
        /\ score' >= 0
        /\ (score' < score => (Restart /\ score' = 0))]_vars
====
